---------------------------- MODULE Spec2Model ----------------------------
(***************************************************************************)
(* A model of the chat session server of suryatresna/wsroom:               *)
(*   internal/chat/chat.go  - Chat: registry (us, ns, seq under mu), the   *)
(*                            outbound channel out and its writer          *)
(*   internal/chat (user)   - User: Receive, readRequest, write, writeRaw  *)
(*                            (src/unnamed/part_000)                       *)
(* Execution contexts: one handler per connection (Register, then Receive  *)
(* steps, then Remove), one closer per connection (a duplicate close event *)
(* calling Remove again), the single writer goroutine, and the tasks the   *)
(* writer hands to the worker pool.                                        *)
(***************************************************************************)
EXTENDS Integers, Sequences, FiniteSets, TLC

\* ------------------------------------------------------------- bounds
MaxConns == 4        \* connections that may ever be accepted
MaxDigit == 0        \* randName draws its digit from 0..MaxDigit
MaxSuffix == 2       \* randName's suffix is cut at this length
MaxReqId == 1        \* request ids are drawn from 1..MaxReqId
PoolCap == 2         \* tasks a pool holds before Schedule blocks
SmallPool == 1       \* the same, of the pool of the runs that start populated

\* ---------------------------------------------------- program constants
OutCap == 1          \* make(chan []byte, 1)

Conns == 1..MaxConns
ReqIds == 1..MaxReqId
Animals == {"ape", "bat"}
DigitOf(i) == CASE i = 0 -> "0" [] i = 1 -> "1" [] i = 2 -> "2" [] i = 3 -> "3"
                [] i = 4 -> "4" [] i = 5 -> "5" [] i = 6 -> "6" [] i = 7 -> "7"
                [] i = 8 -> "8" [] OTHER -> "9"
\* the digits rand.Intn(10) is allowed to return in the model
RandDigits == {DigitOf(i) : i \in 0..(IF MaxDigit > 9 THEN 9 ELSE MaxDigit)}
\* names a rename request may ask for: one the generator also produces, one
\* it never produces
NameInputs == {<<"ape">>, <<"cat">>}

None == <<"none">>
H(c) == <<"h", c>>          \* the handler context of connection c
X(c) == <<"x", c>>          \* the closer context of connection c
Ctx == {H(c) : c \in Conns} \cup {X(c) : c \in Conns}
ConnOf(ctx) == ctx[2]

\* ------------------------------------------------------ Object (a Go map)
\* An Object is a map[string]interface{}: nil, or a set of <<key, value>>
\* pairs; a value carries its dynamic type.
Str(s) == [t |-> "string", v |-> s]
Num(s) == [t |-> "number", v |-> s]
NilObject == [nil |-> TRUE, kv |-> {}]
Obj(kv) == [nil |-> FALSE, kv |-> kv]
Has(o, k) == \E e \in o.kv : e[1] = k
Get(o, k) == (CHOOSE e \in o.kv : e[1] = k)[2]
Put(o, k, v) == [nil |-> FALSE, kv |-> {e \in o.kv : e[1] # k} \cup {<<k, v>>}]
\* name, ok := params["name"].(string)
IsString(o, k) == Has(o, k) /\ Get(o, k).t = "string"

timestamp == Str(<<"ts">>)

VARIABLES
    seq,        \* Chat.seq: the next id
    us,         \* Chat.us: the membership list, a sequence of connections
    ns,         \* Chat.ns: the name map, a set of <<name, connection>>
    mu,         \* Chat.mu: the context that holds it, or None
    out,        \* Chat.out: the buffered channel
    uid,        \* User.id per connection
    uname,      \* User.name per connection
    io,         \* User.io: the context or task that holds it, or None
    closed,     \* conn.Close() was called on the connection
    pc,         \* where each handler and closer is
    req,        \* the request a handler decoded (Receive's req)
    frame,      \* the direct frame a handler is writing (write's x)
    bmsg,       \* the notice a context is broadcasting (Broadcast's r)
    prev,       \* Receive's prev
    wpc,        \* where the writer goroutine is
    wmsg,       \* writer: bts
    wus,        \* writer: the snapshot us
    wi,         \* writer: index of the range loop over us
    pool,       \* the tasks handed to the pool and not finished
    cap,        \* the capacity of the pool NewChat was given
    bseq,       \* per connection: number of the last broadcast written to it
    nenq,       \* number of messages enqueued on out so far
    rmTrue,     \* per connection: Remove calls for which remove returned true
    bye,        \* per connection: goodbye notices enqueued for it
    cut,        \* per connection: nenq when remove first returned true for it
    budget,     \* what the environment may still do: reg, req, dup, close, ev
    panicked    \* the panic that ended the process, or "no"

chatVars == <<seq, us, ns, mu, out>>
userVars == <<uid, uname, io, closed>>
ctxVars == <<pc, req, frame, bmsg, prev>>
writerVars == <<wpc, wmsg, wus, wi, pool, cap>>
obsVars == <<bseq, nenq, rmTrue, bye, cut>>
vars == <<chatVars, userVars, ctxVars, writerVars, obsVars, budget, panicked>>

NoReq == [id |-> 0, method |-> "", params |-> NilObject]
NoFrame == [kind |-> "none", id |-> 0, method |-> "", body |-> NilObject]
NoMsg == [n |-> 0, method |-> "", params |-> NilObject]

\* --------------------------------------------------------- name map
NsHas(m, name) == \E e \in m : e[1] = name
NsGet(m, name) == (CHOOSE e \in m : e[1] = name)[2]
NsDelete(m, name) == {e \in m : e[1] # name}
NsPut(m, name, c) == NsDelete(m, name) \cup {<<name, c>>}

\* ------------------------------------------------------------ randName
\* The names the loop of randName can return from suffix s: a random animal
\* plus the suffix when the name map does not hold it, else the loop goes on
\* with one more random digit.
RECURSIVE RandNameFrom(_, _)
RandNameFrom(m, s) ==
    UNION { IF ~NsHas(m, <<a>> \o s)
            THEN {<<a>> \o s}
            ELSE IF Len(s) >= MaxSuffix
                 THEN {}
                 ELSE UNION {RandNameFrom(m, Append(s, d)) : d \in RandDigits}
          : a \in Animals }

randName(m) == RandNameFrom(m, <<>>)


\* --------------------------------------------------------- sort.Search
\* sort.Search(n, f): binary search for the smallest index in 0..n at which
\* f is true, n when there is none; f(i) is c.us[i].id >= id (0-based i).
RECURSIVE SearchFrom(_, _, _, _)
SearchFrom(l, id, lo, hi) ==
    IF lo >= hi THEN lo
    ELSE LET h == (lo + hi) \div 2
         IN  IF ~(uid[l[h + 1]] >= id)
             THEN SearchFrom(l, id, h + 1, hi)
             ELSE SearchFrom(l, id, lo, h)

Search(l, id) == SearchFrom(l, id, 0, Len(l))

\* remove as it would be keeping the list as it is
WithoutNothing(l, i) == l

\* without: c.us with the element at 0-based index i left out
Without(l, i) == [k \in 1..(Len(l) - 1) |-> IF k <= i THEN l[k] ELSE l[k + 1]]

\* ------------------------------------------------------------- frames
Notice(method, params) == [kind |-> "notice", id |-> 0, method |-> method, body |-> params]
\* writeErrorTo as it would be without ID: req.ID
ErrorToNoId(r, text) ==
    [kind |-> "error", id |-> 0, method |-> "", body |-> Obj({<<"error", Str(<<text>>)>>})]

\* writeErrorTo
ErrorTo(r, text) ==
    [kind |-> "error", id |-> r.id, method |-> "", body |-> Obj({<<"error", Str(<<text>>)>>})]
ResultTo(r) == [kind |-> "result", id |-> r.id, method |-> "", body |-> NilObject]

\* the requests a connection may deliver
RenameParams ==
    {Obj({<<"name", Str(n)>>}) : n \in NameInputs}
        \cup {Obj({<<"name", Num(<<"7">>)>>}), Obj({})}
PublishParams == {Obj({<<"text", Str(<<"hi">>)>>}), NilObject}
Requests ==
    [id : ReqIds, method : {"rename"}, params : RenameParams]
        \cup [id : ReqIds, method : {"publish"}, params : PublishParams]
        \cup [id : ReqIds, method : {"history"}, params : {NilObject}]

Alive == panicked = "no"

\* The environment's events (a connection accepted, a frame delivered, a
\* connection failing, a duplicate close event) are capped per kind and in
\* total.
May(kind) == budget[kind] > 0 /\ budget.ev > 0
Spend(kind) == budget' = [budget EXCEPT ![kind] = @ - 1, !.ev = @ - 1]

\* --------------------------------------------------------------- Init
BlankCtx ==
    /\ req = [c \in Conns |-> NoReq]
    /\ frame = [c \in Conns |-> NoFrame]
    /\ bmsg = [x \in Ctx |-> NoMsg]
    /\ prev = [c \in Conns |-> <<>>]

BlankWriter ==
    /\ wpc = "recv"
    /\ wmsg = NoMsg
    /\ wus = <<>>
    /\ wi = 0
    /\ pool = {}

\* What the environment does in a run, per kind of event and in total:
\* connections accepted, frames delivered, duplicate close events, connections
\* failing.
FreshBudget == [reg |-> 2, req |-> 1, dup |-> 1, close |-> 1, ev |-> 3]

\* NewChat: an empty registry, the channel made, the writer started
Init ==
    /\ seq = 0
    /\ us = <<>>
    /\ ns = {}
    /\ mu = None
    /\ out = <<>>
    /\ uid = [c \in Conns |-> 0]
    /\ uname = [c \in Conns |-> <<>>]
    /\ io = [c \in Conns |-> None]
    /\ closed = [c \in Conns |-> FALSE]
    /\ pc = [x \in Ctx |-> IF x[1] = "h" THEN "new" ELSE "x_idle"]
    /\ BlankCtx
    /\ BlankWriter
    /\ cap = PoolCap
    /\ bseq = [c \in Conns |-> 0]
    /\ nenq = 0
    /\ rmTrue = [c \in Conns |-> 0]
    /\ bye = [c \in Conns |-> 0]
    /\ cut = [c \in Conns |-> 0]
    /\ budget = FreshBudget
    /\ panicked = "no"

\* A state the server is in after k connections were registered one after the
\* other, those in gone then failed and were removed, and every notice was
\* delivered: connection c has id c - 1 and a name randName can have given it,
\* the handlers of the others are back in the caller's loop.
PopName(c) ==
    CASE c = 1 -> <<"ape">> [] c = 2 -> <<"bat">> [] c = 3 -> <<"ape", "0">>
      [] OTHER -> <<"bat", "0">>

RECURSIVE Ascending(_, _)
Ascending(k, S) ==
    IF k = 0 THEN <<>>
    ELSE IF k \in S THEN Append(Ascending(k - 1, S), k) ELSE Ascending(k - 1, S)

PopulatedAs(N, k, gone, b) ==
    /\ seq = k
    /\ us = Ascending(k, (1..k) \ gone)
    /\ ns = {<<N[c], c>> : c \in (1..k) \ gone}
    /\ mu = None
    /\ out = <<>>
    /\ uid = [c \in Conns |-> IF c <= k THEN c - 1 ELSE 0]
    /\ uname = [c \in Conns |-> IF c <= k THEN N[c] ELSE <<>>]
    /\ io = [c \in Conns |-> None]
    /\ closed = [c \in Conns |-> c \in gone]
    /\ pc = [x \in Ctx |-> IF x[1] = "x" THEN "x_idle"
                            ELSE IF x[2] \in gone THEN "removed"
                            ELSE IF x[2] <= k THEN "open" ELSE "new"]
    /\ BlankCtx
    /\ BlankWriter
    /\ cap = SmallPool
    /\ bseq = [c \in Conns |-> IF c \in gone THEN k
                                ELSE IF c <= k THEN k + Cardinality(gone) ELSE 0]
    /\ nenq = k + Cardinality(gone)
    /\ rmTrue = [c \in Conns |-> IF c \in gone THEN 1 ELSE 0]
    /\ bye = [c \in Conns |-> IF c \in gone THEN 1 ELSE 0]
    /\ cut = [c \in Conns |-> IF c \in gone THEN k ELSE 0]
    /\ budget = b
    /\ panicked = "no"

Populated(k, gone, b) == PopulatedAs([c \in Conns |-> PopName(c)], k, gone, b)

\* the other names randName can have given the first two connections
LastName(c) == CASE c = 1 -> <<"bat">> [] c = 2 -> <<"ape">> [] OTHER -> PopName(c)

\* ------------------------------------------------------------ Register
\* Register: user := &User{...}; c.mu.Lock()
RegisterLock(c) ==
    /\ Alive
    /\ pc[H(c)] = "new"
    /\ \A d \in Conns : d < c => pc[H(d)] # "new"
    /\ May("reg")
    /\ mu = None
    /\ mu' = H(c)
    /\ pc' = [pc EXCEPT ![H(c)] = "reg_insert"]
    /\ Spend("reg")
    /\ UNCHANGED <<seq, us, ns, out, userVars, req, frame, bmsg, prev, writerVars,
                   obsVars, panicked>>

\* Register as it would be with the id taken from the length of the list
RegisterInsertIdFromLen(c) ==
    /\ Alive
    /\ pc[H(c)] = "reg_insert"
    /\ \E name \in randName(ns) :
          /\ uname' = [uname EXCEPT ![c] = name]
          /\ ns' = NsPut(ns, name, c)
          /\ frame' = [frame EXCEPT ![c] = Notice("hello", Obj({<<"name", Str(name)>>}))]
    /\ uid' = [uid EXCEPT ![c] = Len(us)]
    /\ us' = Append(us, c)
    /\ seq' = seq + 1
    /\ mu' = None
    /\ pc' = [pc EXCEPT ![H(c)] = "w_lock"]
    /\ UNCHANGED <<out, io, closed, req, bmsg, prev, writerVars, obsVars, budget,
                   panicked>>

\* Register as it would be with c.mu.Unlock() deferred to its return
RegisterInsertKeepsLock(c) ==
    /\ Alive
    /\ pc[H(c)] = "reg_insert"
    /\ \E name \in randName(ns) :
          /\ uname' = [uname EXCEPT ![c] = name]
          /\ ns' = NsPut(ns, name, c)
          /\ frame' = [frame EXCEPT ![c] = Notice("hello", Obj({<<"name", Str(name)>>}))]
    /\ uid' = [uid EXCEPT ![c] = seq]
    /\ us' = Append(us, c)
    /\ seq' = seq + 1
    /\ mu' = mu
    /\ pc' = [pc EXCEPT ![H(c)] = "w_lock"]
    /\ UNCHANGED <<out, io, closed, req, bmsg, prev, writerVars, obsVars, budget,
                   panicked>>

\* user.id = c.seq; user.name = c.randName(); c.us = append(c.us, user);
\* c.ns[user.name] = user; c.seq++; c.mu.Unlock(); then writeNotice("hello")
RegisterInsert(c) ==
    /\ Alive
    /\ pc[H(c)] = "reg_insert"
    /\ \E name \in randName(ns) :
          /\ uname' = [uname EXCEPT ![c] = name]
          /\ ns' = NsPut(ns, name, c)
          /\ frame' = [frame EXCEPT ![c] = Notice("hello", Obj({<<"name", Str(name)>>}))]
    /\ uid' = [uid EXCEPT ![c] = seq]
    /\ us' = Append(us, c)
    /\ seq' = seq + 1
    /\ mu' = None
    /\ pc' = [pc EXCEPT ![H(c)] = "w_lock"]
    /\ UNCHANGED <<out, io, closed, req, bmsg, prev, writerVars, obsVars, budget,
                   panicked>>

\* ------------------------------------------------------- User.write
\* write: u.io.Lock()
IoLock(c, who) ==
    /\ io[c] = None
    /\ io' = [io EXCEPT ![c] = who]

WriteLock(c) ==
    /\ Alive
    /\ pc[H(c)] = "w_lock"
    /\ IoLock(c, H(c))
    /\ pc' = [pc EXCEPT ![H(c)] = "w_flush"]
    /\ UNCHANGED <<chatVars, uid, uname, closed, req, frame, bmsg, prev, writerVars,
                   obsVars, budget, panicked>>

\* what a handler does after a direct write: Register goes on to broadcast
\* greet, Receive returns
AfterWrite(c) ==
    IF frame[c].method = "hello"
    THEN /\ pc' = [pc EXCEPT ![H(c)] = "bcast"]
         /\ bmsg' = [bmsg EXCEPT ![H(c)] =
                [n |-> 0, method |-> "greet",
                 params |-> Obj({<<"name", Str(uname[c])>>, <<"time", timestamp>>})]]
         /\ req' = req
    ELSE /\ pc' = [pc EXCEPT ![H(c)] = "open"]
         /\ bmsg' = bmsg
         /\ req' = [req EXCEPT ![c] = NoReq]

\* encoder.Encode(x); w.Flush(); u.io.Unlock()
WriteFlush(c) ==
    /\ Alive
    /\ pc[H(c)] = "w_flush"
    /\ io' = [io EXCEPT ![c] = IF @ = H(c) THEN None ELSE @]
    /\ frame' = [frame EXCEPT ![c] = NoFrame]
    /\ AfterWrite(c)
    /\ UNCHANGED <<chatVars, uid, uname, closed, prev, writerVars, obsVars, budget,
                   panicked>>

\* ------------------------------------------------------------ Broadcast
\* what a context does after Broadcast returned
AfterBroadcast(x) ==
    LET c == ConnOf(x)
        m == bmsg[x].method
    IN  /\ pc' = [pc EXCEPT ![x] =
                CASE m = "rename" -> "w_lock"
                  [] m = "goodbye" -> IF x[1] = "h" THEN "removed" ELSE "x_idle"
                  [] OTHER -> "open"]
        /\ frame' = IF m = "rename" THEN [frame EXCEPT ![c] = ResultTo(req[c])] ELSE frame
        /\ req' = IF m = "publish" THEN [req EXCEPT ![c] = NoReq] ELSE req
        /\ prev' = IF m = "rename" THEN [prev EXCEPT ![c] = <<>>] ELSE prev

\* Broadcast as it would be with a send that does not wait for room
BroadcastNoBlock(x) ==
    /\ Alive
    /\ pc[x] = "bcast"
    /\ out' = Append(out, [bmsg[x] EXCEPT !.n = nenq + 1])
    /\ nenq' = nenq + 1
    /\ bye' = IF bmsg[x].method = "goodbye" THEN [bye EXCEPT ![ConnOf(x)] = @ + 1] ELSE bye
    /\ bmsg' = [bmsg EXCEPT ![x] = NoMsg]
    /\ AfterBroadcast(x)
    /\ UNCHANGED <<seq, us, ns, mu, userVars, writerVars, bseq, rmTrue, cut, budget,
                   panicked>>

\* Broadcast: encode Request{Method, Params} once; c.out <- buf.Bytes()
Broadcast(x) ==
    /\ Alive
    /\ pc[x] = "bcast"
    /\ Len(out) < OutCap
    /\ out' = Append(out, [bmsg[x] EXCEPT !.n = nenq + 1])
    /\ nenq' = nenq + 1
    /\ bye' = IF bmsg[x].method = "goodbye" THEN [bye EXCEPT ![ConnOf(x)] = @ + 1] ELSE bye
    /\ bmsg' = [bmsg EXCEPT ![x] = NoMsg]
    /\ AfterBroadcast(x)
    /\ UNCHANGED <<seq, us, ns, mu, userVars, writerVars, bseq, rmTrue, cut, budget,
                   panicked>>


\* -------------------------------------------------------------- Receive
\* readRequest: u.io.Lock(); then wsutil.NextReader blocks for the next frame.
\* The caller invokes Receive while the connection may still deliver something.
ReadLock(c) ==
    /\ Alive
    /\ pc[H(c)] = "open"
    /\ May("req") \/ May("close")
    /\ IoLock(c, H(c))
    /\ pc' = [pc EXCEPT ![H(c)] = "reading"]
    /\ UNCHANGED <<chatVars, uid, uname, closed, req, frame, bmsg, prev, writerVars,
                   obsVars, budget, panicked>>

\* Receive as it would be without u.conn.Close() on a failed readRequest
ReadFailKeepsOpen(c) ==
    /\ Alive
    /\ pc[H(c)] = "reading"
    /\ May("close")
    /\ Spend("close")
    /\ io' = [io EXCEPT ![c] = None]
    /\ closed' = closed
    /\ pc' = [pc EXCEPT ![H(c)] = "fatal"]
    /\ UNCHANGED <<chatVars, uid, uname, req, frame, bmsg, prev, writerVars, obsVars,
                   panicked>>

\* the read, the decode or the control frame handler failed: readRequest
\* returns the error (io unlocked by defer), Receive closes the connection
ReadFail(c) ==
    /\ Alive
    /\ pc[H(c)] = "reading"
    /\ May("close")
    /\ Spend("close")
    /\ io' = [io EXCEPT ![c] = None]
    /\ closed' = [closed EXCEPT ![c] = TRUE]
    /\ pc' = [pc EXCEPT ![H(c)] = "fatal"]
    /\ UNCHANGED <<chatVars, uid, uname, req, frame, bmsg, prev, writerVars, obsVars,
                   panicked>>

\* a control frame, handled: readRequest returns (nil, nil), Receive nil
ReadControl(c) ==
    /\ Alive
    /\ pc[H(c)] = "reading"
    /\ May("req")
    /\ Spend("req")
    /\ io' = [io EXCEPT ![c] = None]
    /\ pc' = [pc EXCEPT ![H(c)] = "open"]
    /\ UNCHANGED <<chatVars, uid, uname, closed, req, frame, bmsg, prev, writerVars,
                   obsVars, panicked>>

\* Receive's switch on req.Method, up to the first call that takes a lock
Dispatch(c, r) ==
    CASE r.method = "rename" /\ ~IsString(r.params, "name") ->
            /\ frame' = [frame EXCEPT ![c] = ErrorTo(r, "bad params")]
            /\ pc' = [pc EXCEPT ![H(c)] = "w_lock"]
      [] r.method = "rename" /\ IsString(r.params, "name") ->
            /\ frame' = frame
            /\ pc' = [pc EXCEPT ![H(c)] = "ren_lock"]
      [] r.method = "publish" ->
            /\ frame' = frame
            /\ pc' = [pc EXCEPT ![H(c)] = "pub_stamp"]
      [] OTHER ->
            /\ frame' = [frame EXCEPT ![c] = ErrorTo(r, "not implemented")]
            /\ pc' = [pc EXCEPT ![H(c)] = "w_lock"]

\* a data frame that decodes as a Request: readRequest returns it
ReadRequest(c) ==
    /\ Alive
    /\ pc[H(c)] = "reading"
    /\ May("req")
    /\ Spend("req")
    /\ io' = [io EXCEPT ![c] = None]
    /\ \E r \in Requests :
          /\ req' = [req EXCEPT ![c] = r]
          /\ Dispatch(c, r)
    /\ UNCHANGED <<chatVars, uid, uname, closed, bmsg, prev, writerVars, obsVars,
                   panicked>>

\* --------------------------------------------------------------- Rename
RenameLock(c) ==
    /\ Alive
    /\ pc[H(c)] = "ren_lock"
    /\ mu = None
    /\ mu' = H(c)
    /\ pc' = [pc EXCEPT ![H(c)] = "ren_body"]
    /\ UNCHANGED <<seq, us, ns, out, userVars, req, frame, bmsg, prev, writerVars,
                   obsVars, budget, panicked>>

\* Rename as it would be with prev read after user.name was assigned
RenameBodyPrevAfter(c) ==
    LET name == Get(req[c].params, "name").v
    IN  /\ Alive
        /\ pc[H(c)] = "ren_body"
        /\ mu' = None
        /\ IF ~NsHas(ns, name)
           THEN /\ prev' = [prev EXCEPT ![c] = name]
                /\ uname' = [uname EXCEPT ![c] = name]
                /\ ns' = NsPut(NsDelete(ns, name), name, c)
                /\ bmsg' = [bmsg EXCEPT ![H(c)] =
                       [n |-> 0, method |-> "rename",
                        params |-> Obj({<<"prev", Str(name)>>, <<"name", Str(name)>>,
                                        <<"time", timestamp>>})]]
                /\ pc' = [pc EXCEPT ![H(c)] = "bcast"]
                /\ frame' = frame
           ELSE /\ UNCHANGED <<prev, uname, ns, bmsg>>
                /\ frame' = [frame EXCEPT ![c] = ErrorTo(req[c], "already exists")]
                /\ pc' = [pc EXCEPT ![H(c)] = "w_lock"]
        /\ UNCHANGED <<seq, us, out, uid, io, closed, req, writerVars, obsVars, budget,
                       panicked>>

\* Rename's critical section and Unlock, then Receive's use of (prev, ok)
RenameBody(c) ==
    LET name == Get(req[c].params, "name").v
    IN  /\ Alive
        /\ pc[H(c)] = "ren_body"
        /\ mu' = None
        /\ IF ~NsHas(ns, name)
           THEN /\ prev' = [prev EXCEPT ![c] = uname[c]]
                /\ uname' = [uname EXCEPT ![c] = name]
                /\ ns' = NsPut(NsDelete(ns, uname[c]), name, c)
                /\ bmsg' = [bmsg EXCEPT ![H(c)] =
                       [n |-> 0, method |-> "rename",
                        params |-> Obj({<<"prev", Str(uname[c])>>, <<"name", Str(name)>>,
                                        <<"time", timestamp>>})]]
                /\ pc' = [pc EXCEPT ![H(c)] = "bcast"]
                /\ frame' = frame
           ELSE /\ UNCHANGED <<prev, uname, ns, bmsg>>
                /\ frame' = [frame EXCEPT ![c] = ErrorTo(req[c], "already exists")]
                /\ pc' = [pc EXCEPT ![H(c)] = "w_lock"]
        /\ UNCHANGED <<seq, us, out, uid, io, closed, req, writerVars, obsVars, budget,
                       panicked>>

\* -------------------------------------------------------------- publish
\* req.Params["author"] = u.name; req.Params["time"] = timestamp(): an
\* assignment to an entry of a nil map panics
PublishStamp(c) ==
    /\ Alive
    /\ pc[H(c)] = "pub_stamp"
    /\ IF req[c].params.nil
       THEN /\ panicked' = "assignment to entry in nil map"
            /\ UNCHANGED <<pc, bmsg>>
       ELSE /\ bmsg' = [bmsg EXCEPT ![H(c)] =
                   [n |-> 0, method |-> "publish",
                    params |-> Put(Put(req[c].params, "author", Str(uname[c])),
                                   "time", timestamp)]]
            /\ pc' = [pc EXCEPT ![H(c)] = "bcast"]
            /\ panicked' = panicked
    /\ UNCHANGED <<chatVars, userVars, req, frame, prev, writerVars, obsVars, budget>>

\* --------------------------------------------------------------- Remove
\* the handler's caller calls Remove after a fatal Receive
\* Remove: c.mu.Lock()
RemoveLock(c) ==
    /\ Alive
    /\ pc[H(c)] = "fatal"
    /\ mu = None
    /\ mu' = H(c)
    /\ pc' = [pc EXCEPT ![H(c)] = "rm_body"]
    /\ UNCHANGED <<seq, us, ns, out, userVars, req, frame, bmsg, prev, writerVars,
                   obsVars, budget, panicked>>

\* a duplicate close event calls Remove for the same user again
RemoveAgainLock(c) ==
    /\ Alive
    /\ pc[X(c)] = "x_idle"
    /\ closed[c]
    /\ May("dup")
    /\ Spend("dup")
    /\ mu = None
    /\ mu' = X(c)
    /\ pc' = [pc EXCEPT ![X(c)] = "rm_body"]
    /\ UNCHANGED <<seq, us, ns, out, userVars, req, frame, bmsg, prev, writerVars,
                   obsVars, panicked>>

\* remove under the lock, then c.mu.Unlock(): false when the name map has no
\* entry under user.name; else that entry is deleted, sort.Search looks for
\* user.id, and the list loses index i (or the panic when i is past the end).
\* Remove then returns, or goes on to broadcast goodbye.
RemoveBody(x) ==
    LET c == ConnOf(x)
        i == Search(us, uid[c])
    IN  /\ Alive
        /\ pc[x] = "rm_body"
        /\ IF ~NsHas(ns, uname[c])
           THEN /\ mu' = None
                /\ pc' = [pc EXCEPT ![x] = IF x[1] = "h" THEN "removed" ELSE "x_idle"]
                /\ UNCHANGED <<ns, us, bmsg, rmTrue, cut, panicked>>
           ELSE /\ ns' = NsDelete(ns, uname[c])
                /\ IF i >= Len(us)
                   THEN /\ panicked' = "chat: inconsistent state"
                        /\ UNCHANGED <<us, mu, pc, bmsg, rmTrue, cut>>
                   ELSE /\ us' = Without(us, i)
                        /\ mu' = None
                        /\ rmTrue' = [rmTrue EXCEPT ![c] = @ + 1]
                        /\ cut' = IF rmTrue[c] = 0 THEN [cut EXCEPT ![c] = nenq] ELSE cut
                        /\ bmsg' = [bmsg EXCEPT ![x] =
                               [n |-> 0, method |-> "goodbye",
                                params |-> Obj({<<"name", Str(uname[c])>>,
                                                <<"time", timestamp>>})]]
                        /\ pc' = [pc EXCEPT ![x] = "bcast"]
                        /\ panicked' = panicked
        /\ UNCHANGED <<seq, out, userVars, req, frame, prev, writerVars, bseq, nenq,
                       bye, budget>>

\* --------------------------------------------------------------- writer
\* for bts := range c.out
WriterRecv ==
    /\ Alive
    /\ wpc = "recv"
    /\ out # <<>>
    /\ wmsg' = Head(out)
    /\ out' = Tail(out)
    /\ wpc' = "snap"
    /\ UNCHANGED <<seq, us, ns, mu, userVars, ctxVars, wus, wi, pool, cap, obsVars,
                   budget, panicked>>

\* c.mu.RLock(); us := c.us; c.mu.RUnlock()
WriterSnapshot ==
    /\ Alive
    /\ wpc = "snap"
    /\ mu = None
    /\ IF us = <<>>
       THEN /\ wpc' = "recv"
            /\ wmsg' = NoMsg
            /\ UNCHANGED <<wus, wi>>
       ELSE /\ wpc' = "sched"
            /\ wus' = us
            /\ wi' = 1
            /\ wmsg' = wmsg
    /\ UNCHANGED <<chatVars, userVars, ctxVars, pool, cap, obsVars, budget, panicked>>

TaskId(t) == <<"t", t.c, t.m.n>>

\* c.pool.Schedule(func() { u.writeRaw(bts) }): blocks while the pool is full
Schedule(t) ==
    /\ Cardinality(pool) < cap
    /\ pool' = pool \cup {t}
    /\ cap' = cap

\* writer as it would be ranging over c.us itself instead of its snapshot
WriterScheduleLive ==
    /\ Alive
    /\ wpc = "sched"
    /\ Schedule([c |-> IF wi <= Len(us) THEN us[wi] ELSE wus[wi], m |-> wmsg,
                 st |-> "ready"])
    /\ IF wi = Len(wus)
       THEN /\ wpc' = "recv"
            /\ wmsg' = NoMsg
            /\ wus' = <<>>
            /\ wi' = 0
       ELSE /\ wi' = wi + 1
            /\ UNCHANGED <<wpc, wmsg, wus>>
    /\ UNCHANGED <<chatVars, userVars, ctxVars, obsVars, budget, panicked>>

\* one iteration of for _, u := range us
WriterSchedule ==
    /\ Alive
    /\ wpc = "sched"
    /\ Schedule([c |-> wus[wi], m |-> wmsg, st |-> "ready"])
    /\ IF wi = Len(wus)
       THEN /\ wpc' = "recv"
            /\ wmsg' = NoMsg
            /\ wus' = <<>>
            /\ wi' = 0
       ELSE /\ wi' = wi + 1
            /\ UNCHANGED <<wpc, wmsg, wus>>
    /\ UNCHANGED <<chatVars, userVars, ctxVars, obsVars, budget, panicked>>

\* ---------------------------------------------------------- User.writeRaw
\* writeRaw as it would be without u.io.Lock(): the task writes at once
WriteRawNoLock(t) ==
    /\ io' = io
    /\ pool' = (pool \ {t}) \cup {[t EXCEPT !.st = "writing"]}
    /\ cap' = cap

\* writeRaw: u.io.Lock()
WriteRawLock(t) ==
    /\ IoLock(t.c, TaskId(t))
    /\ pool' = (pool \ {t}) \cup {[t EXCEPT !.st = "writing"]}
    /\ cap' = cap

TaskLock(t) ==
    /\ Alive
    /\ t \in pool
    /\ t.st = "ready"
    /\ WriteRawLock(t)
    /\ UNCHANGED <<chatVars, uid, uname, closed, ctxVars, wpc, wmsg, wus, wi, obsVars,
                   budget, panicked>>

\* u.conn.Write(p); u.io.Unlock(); the task ends
TaskWrite(t) ==
    /\ Alive
    /\ t \in pool
    /\ t.st = "writing"
    /\ bseq' = [bseq EXCEPT ![t.c] = IF closed[t.c] THEN @ ELSE t.m.n]
    /\ io' = [io EXCEPT ![t.c] = IF @ = TaskId(t) THEN None ELSE @]
    /\ pool' = pool \ {t}
    /\ cap' = cap
    /\ UNCHANGED <<chatVars, uid, uname, closed, ctxVars, wpc, wmsg, wus, wi, nenq,
                   rmTrue, bye, cut, budget, panicked>>

\* ----------------------------------------------------------------- Next
Next ==
    \/ \E c \in Conns : RegisterLock(c)
    \/ \E c \in Conns : RegisterInsert(c)
    \/ \E c \in Conns : WriteLock(c)
    \/ \E c \in Conns : WriteFlush(c)
    \/ \E x \in Ctx : Broadcast(x)
    \/ \E c \in Conns : ReadLock(c)
    \/ \E c \in Conns : ReadFail(c)
    \/ \E c \in Conns : ReadControl(c)
    \/ \E c \in Conns : ReadRequest(c)
    \/ \E c \in Conns : RenameLock(c)
    \/ \E c \in Conns : RenameBody(c)
    \/ \E c \in Conns : PublishStamp(c)
    \/ \E c \in Conns : RemoveLock(c)
    \/ \E c \in Conns : RemoveAgainLock(c)
    \/ \E x \in Ctx : RemoveBody(x)
    \/ WriterRecv
    \/ WriterSnapshot
    \/ WriterSchedule
    \/ \E t \in pool : TaskLock(t)
    \/ \E t \in pool : TaskWrite(t)

Spec == Init /\ [][Next]_vars

\* Runs that start populated: two connections registered
Budget2 == [reg |-> 1, req |-> 1, dup |-> 1, close |-> 1, ev |-> 3]
Init2 == Populated(2, {}, Budget2)
Spec2 == Init2 /\ [][Next]_vars

\* three connections registered, the first of them failed and removed
BudgetGone == [reg |-> 1, req |-> 1, dup |-> 1, close |-> 1, ev |-> 3]
InitGone == Populated(3, {1}, BudgetGone)
SpecGone == InitGone /\ [][Next]_vars

\* two connections registered as bat and ape, the second failed and removed
BudgetLast == [reg |-> 1, req |-> 1, dup |-> 1, close |-> 1, ev |-> 2]
InitLast == PopulatedAs([c \in Conns |-> LastName(c)], 2, {2}, BudgetLast)
SpecLast == InitLast /\ [][Next]_vars

\* The steps the program takes by itself once it has been called: the rest of
\* a handler's Register, Receive or Remove, the dispatcher and the pool's
\* tasks. When a connection is accepted, when its supervisor calls Receive,
\* what the peer sends and a second Remove are the environment's.
Progress ==
    \/ \E c \in Conns : RegisterInsert(c)
    \/ \E c \in Conns : WriteLock(c)
    \/ \E c \in Conns : WriteFlush(c)
    \/ \E x \in Ctx : Broadcast(x)
    \/ \E c \in Conns : RenameLock(c)
    \/ \E c \in Conns : RenameBody(c)
    \/ \E c \in Conns : PublishStamp(c)
    \/ \E c \in Conns : RemoveLock(c)
    \/ \E x \in Ctx : RemoveBody(x)
    \/ WriterRecv
    \/ WriterSnapshot
    \/ WriterSchedule
    \/ \E t \in pool : TaskLock(t)
    \/ \E t \in pool : TaskWrite(t)

\* two connections registered, every goroutine that can run does run
BudgetFair == [reg |-> 1, req |-> 1, dup |-> 1, close |-> 1, ev |-> 2]
InitFair == Populated(2, {}, BudgetFair)
FairSpec == InitFair /\ [][Next]_vars /\ WF_vars(Progress)

\* ======================================================================
\* The claims
\* ======================================================================

\* C1: per-participant broadcast order. The messages written to one
\* connection are written in the order Broadcast enqueued them: the number of
\* the last broadcast written to a connection never goes down, whatever order
\* the pool runs the write tasks in.
C1_BroadcastOrder == [][\A c \in Conns : bseq'[c] >= bseq[c]]_vars

\* the contexts that are inside a write to connection c: its handler between
\* Lock and Unlock of write, the pool tasks between Lock and Unlock of writeRaw
Writers(c) ==
    (IF pc[H(c)] = "w_flush" THEN {H(c)} ELSE {})
        \cup {TaskId(t) : t \in {u \in pool : u.c = c /\ u.st = "writing"}}

\* C6: writes to one participant are never interleaved. At most one context
\* is inside a write to a connection, and it holds the connection's io lock.
C6_NoInterleavedWrites ==
    \A c \in Conns :
        /\ Cardinality(Writers(c)) <= 1
        /\ \A w \in Writers(c) : io[c] = w

\* C6 witness: a pool task is writing a broadcast to a connection while the
\* connection's handler waits to write a direct frame to it.
C6_Witness ==
    \E c \in Conns :
        /\ pc[H(c)] = "w_lock"
        /\ \E t \in pool : t.c = c /\ t.st = "writing" /\ io[c] = TaskId(t)

\* C2: name uniqueness. No two participants of the membership list have the
\* same display name.
C2_UniqueNames ==
    \A i, j \in 1..Len(us) : i # j => uname[us[i]] # uname[us[j]]

\* C3: Remove is idempotent. A Remove call for a participant that an earlier
\* call removed reports "not removed" and leaves the membership list and the
\* name map unchanged (so it goes on to no goodbye notice).
C3_RemoveIdempotent ==
    [][\A x \in Ctx :
          (pc[x] = "rm_body" /\ rmTrue[ConnOf(x)] >= 1 /\ pc'[x] # pc[x])
              => /\ pc'[x] \in {"removed", "x_idle"}
                 /\ us' = us
                 /\ ns' = ns
                 /\ out' = out]_vars

\* C4: goodbye exactly once. Over all Remove calls for one participant, remove
\* returns true at most once and at most one goodbye notice is enqueued.
C4_GoodbyeOnce ==
    \A c \in Conns : rmTrue[c] <= 1 /\ bye[c] <= 1

\* the name a rename request asks for
Wanted(c) == Get(req[c].params, "name").v

\* C5: Rename(p, n) returns ok exactly when the name map has no entry for n
\* (so not for p's current name); on success prev is p's previous name, the
\* previous name is no key of the name map any more, n maps to p and p's name
\* is n; on failure the name map and the names are unchanged.
C5_Rename ==
    [][\A c \in Conns :
          (pc[H(c)] = "ren_body" /\ pc'[H(c)] # "ren_body")
              => IF pc'[H(c)] = "bcast"
                 THEN /\ ~NsHas(ns, Wanted(c))
                      /\ Wanted(c) # uname[c]
                      /\ prev'[c] = uname[c]
                      /\ ~NsHas(ns', uname[c])
                      /\ NsHas(ns', Wanted(c)) /\ NsGet(ns', Wanted(c)) = c
                      /\ uname'[c] = Wanted(c)
                 ELSE /\ NsHas(ns, Wanted(c))
                      /\ ns' = ns
                      /\ uname' = uname]_vars

\* the params a publish request is broadcast with: the request's own, with
\* author and time set
Stamped(c) ==
    [nil |-> FALSE,
     kv |-> {e \in req[c].params.kv : e[1] \notin {"author", "time"}}
                \cup {<<"author", Str(uname[c])>>, <<"time", timestamp>>}]

\* C8: publish. A receive step that decoded a publish request stamps the
\* params with author (the participant's name) and time, enqueues exactly one
\* publish message with them and returns without a direct reply; the writer
\* takes the membership list as it is when it handles the message.
C8_Publish ==
    [][/\ \A c \in Conns :
            /\ pc[H(c)] = "pub_stamp"
                  => /\ panicked' # "assignment to entry in nil map"
                     /\ pc'[H(c)] # "pub_stamp"
                           => /\ pc'[H(c)] = "bcast"
                              /\ bmsg'[H(c)].method = "publish"
                              /\ bmsg'[H(c)].params = Stamped(c)
            /\ (pc[H(c)] = "bcast" /\ bmsg[H(c)].method = "publish" /\ pc'[H(c)] # "bcast")
                  => /\ out' = Append(out, [n |-> nenq + 1, method |-> "publish",
                                            params |-> bmsg[H(c)].params])
                     /\ pc'[H(c)] = "open"
       /\ (wpc = "snap" /\ wmsg.method = "publish" /\ wpc' = "sched") => wus' = us]_vars

\* what an error reply to request r with this text is on the wire
IsErrorReply(f, r, text) ==
    /\ f.kind = "error"
    /\ f.id = r.id
    /\ f.body = [nil |-> FALSE, kv |-> {<<"error", Str(<<text>>)>>}]

\* nothing of the registry, the channel or the connection changes
SameSession(c) ==
    /\ us' = us
    /\ ns' = ns
    /\ uname' = uname
    /\ out' = out
    /\ nenq' = nenq
    /\ closed' = closed

\* C9: application errors are recoverable. Bad params, a name the name map
\* holds and an unknown method each give one error reply with the request's
\* id: the step that finds the error prepares that reply, the handler then
\* writes it and returns, and none of these steps changes the membership list,
\* the name map or a name, enqueues a broadcast or closes the connection.
C9_ErrorReply ==
    [][\A c \in Conns :
          LET r == req'[c] IN
          /\ (pc[H(c)] = "reading" /\ pc'[H(c)] \notin {"reading", "open", "fatal"}
                 /\ r.method = "rename" /\ ~IsString(r.params, "name"))
                => /\ pc'[H(c)] = "w_lock"
                   /\ IsErrorReply(frame'[c], r, "bad params")
                   /\ SameSession(c)
          /\ (pc[H(c)] = "reading" /\ pc'[H(c)] \notin {"reading", "open", "fatal"}
                 /\ r.method \notin {"rename", "publish"})
                => /\ pc'[H(c)] = "w_lock"
                   /\ IsErrorReply(frame'[c], r, "not implemented")
                   /\ SameSession(c)
          /\ (pc[H(c)] = "ren_body" /\ pc'[H(c)] # "ren_body" /\ NsHas(ns, Wanted(c)))
                => /\ pc'[H(c)] = "w_lock"
                   /\ IsErrorReply(frame'[c], req[c], "already exists")
                   /\ SameSession(c)
          /\ (pc[H(c)] = "w_lock" /\ frame[c].kind = "error" /\ pc'[H(c)] # "w_lock")
                => /\ pc'[H(c)] = "w_flush"
                   /\ frame'[c] = frame[c]
                   /\ SameSession(c)
          /\ (pc[H(c)] = "w_flush" /\ frame[c].kind = "error" /\ pc'[H(c)] # "w_flush")
                => /\ frame[c].id = req[c].id
                   /\ pc'[H(c)] = "open"
                   /\ SameSession(c)]_vars

\* C9 witness: a handler is writing the error reply to a rename request whose
\* name another participant holds.
C9_Witness ==
    \E c \in Conns :
        /\ pc[H(c)] = "w_flush"
        /\ io[c] = H(c)
        /\ req[c].method = "rename"
        /\ IsErrorReply(frame[c], req[c], "already exists")
        /\ \E d \in Conns : d # c /\ NsHas(ns, Wanted(c)) /\ NsGet(ns, Wanted(c)) = d

\* C10: a rename notice is broadcast exactly when the rename succeeded. The
\* successful Rename hands (prev, name) to one rename notice, which is enqueued
\* once and followed by the success reply with the request's id; nothing else
\* enqueues a rename notice.
C10_RenameNotice ==
    [][/\ \A c \in Conns :
            /\ (pc[H(c)] = "ren_body" /\ pc'[H(c)] = "bcast")
                  => /\ bmsg'[H(c)].method = "rename"
                     /\ bmsg'[H(c)].params =
                           [nil |-> FALSE,
                            kv |-> {<<"prev", Str(uname[c])>>, <<"name", Str(Wanted(c))>>,
                                    <<"time", timestamp>>}]
                     /\ uname'[c] = Wanted(c)
                     /\ out' = out
            /\ (pc[H(c)] = "ren_body" /\ pc'[H(c)] \notin {"ren_body", "bcast"})
                  => /\ out' = out
                     /\ bmsg'[H(c)] = NoMsg
                     /\ frame'[c].kind = "error"
            /\ (pc[H(c)] = "bcast" /\ bmsg[H(c)].method = "rename" /\ pc'[H(c)] # "bcast")
                  => /\ out' = Append(out, [n |-> nenq + 1, method |-> "rename",
                                            params |-> bmsg[H(c)].params])
                     /\ pc'[H(c)] = "w_lock"
                     /\ frame'[c] = [kind |-> "result", id |-> req[c].id, method |-> "",
                                     body |-> NilObject]
            /\ (pc[H(c)] = "w_flush" /\ frame[c].kind = "result" /\ pc'[H(c)] # "w_flush")
                  => pc'[H(c)] = "open" /\ out' = out
       /\ (Len(out') > Len(out) /\ out'[Len(out')].method = "rename")
            => \E c \in Conns :
                  /\ pc[H(c)] = "bcast"
                  /\ pc'[H(c)] = "w_lock"
                  /\ bmsg[H(c)].method = "rename"
                  /\ Get(out'[Len(out')].params, "name").v = uname[c]]_vars

\* C10 witness: a rename notice is in the channel and its sender is writing
\* the success reply.
C10_Witness ==
    \E c \in Conns :
        /\ pc[H(c)] = "w_flush"
        /\ frame[c].kind = "result"
        /\ out # <<>>
        /\ out[1].method = "rename"
        /\ Get(out[1].params, "name").v = uname[c]

\* the dispatcher has taken message n off the channel with q in its snapshot
Owed(q, n) ==
    /\ wpc = "sched"
    /\ wmsg.n = n
    /\ \E i \in 1..Len(wus) : wus[i] = q

\* q is itself out of the claim's scope: its connection failed, or its own
\* receive step holds its io lock
Stalled(q) == closed[q] \/ pc[H(q)] = "reading"

\* C7: a stalled participant never delays the others. Every message the
\* dispatcher has dequeued with q in its snapshot is eventually written to q,
\* unless q itself is stalled or closed (or the process has crashed), whatever
\* another participant does, and every message put in the channel is
\* eventually taken off it.
C7_NoDelay ==
    /\ \A q \in Conns : \A n \in 1..(MaxConns + BudgetFair.ev) :
          Owed(q, n) ~> (bseq[q] = n \/ Stalled(q) \/ ~Alive)
    /\ (out # <<>>) ~> (out = <<>> \/ ~Alive)

\* c is an element of the membership list
InList(l, c) == \E i \in 1..Len(l) : l[i] = c

\* C11: protocol and transport errors are fatal to the connection only. The
\* receive step whose read or decode fails closes its connection and returns
\* the error with u.io released: it prepares no reply, enqueues nothing and
\* leaves the membership list, the name map and every name as they are, and it
\* touches no other connection or handler. A closed connection stays closed
\* and its handler never reads from it or replies on it again.
C11_FatalToConnectionOnly ==
    [][\A c \in Conns :
          /\ (pc[H(c)] = "reading" /\ pc'[H(c)] = "fatal")
                => /\ closed'[c]
                   /\ io'[c] = None
                   /\ frame'[c] = NoFrame
                   /\ bmsg'[H(c)] = NoMsg
                   /\ us' = us /\ ns' = ns /\ uname' = uname /\ seq' = seq
                   /\ out' = out /\ nenq' = nenq
                   /\ \A d \in Conns \ {c} :
                         /\ closed'[d] = closed[d]
                         /\ pc'[H(d)] = pc[H(d)]
                         /\ io'[d] = io[d]
          /\ pc'[H(c)] = "fatal" => closed'[c]
          /\ closed[c]
                => /\ closed'[c]
                   /\ pc'[H(c)] \in {"fatal", "rm_body", "bcast", "removed"}
                   /\ frame'[c] = NoFrame]_vars

\* C11 witness: a receive step has failed and closed its connection, its
\* participant is still in the membership list and the name map, and another
\* participant's connection is open.
C11_Witness ==
    \E c \in Conns :
        /\ pc[H(c)] = "fatal"
        /\ closed[c]
        /\ InList(us, c)
        /\ NsHas(ns, uname[c]) /\ NsGet(ns, uname[c]) = c
        /\ \E d \in Conns \ {c} : InList(us, d) /\ ~closed[d] /\ pc[H(d)] = "open"

\* the messages in the channel are the last Len(q) that were enqueued, in
\* enqueue order
Pending(q, n) == \A i \in 1..Len(q) : q[i].n = n - Len(q) + i

\* C12: backpressure without loss. The channel never holds more than OutCap
\* messages; a Broadcast call returns only with the step that puts its message
\* at the end of the channel, which needs room; the channel changes only by
\* that and by the dispatcher taking its head, so with nenq messages enqueued
\* and Len(out) of them waiting, the dispatcher has taken nenq - Len(out) and
\* takes message nenq - Len(out) + 1 next: each message once, none skipped.
C12_Backpressure ==
    [][/\ Len(out) <= OutCap /\ Len(out') <= OutCap
       /\ Pending(out, nenq) /\ Pending(out', nenq')
       /\ \A x \in Ctx :
             (pc[x] = "bcast" /\ pc'[x] # "bcast")
                => /\ Len(out) < OutCap
                   /\ out' = Append(out, [bmsg[x] EXCEPT !.n = nenq + 1])
                   /\ nenq' = nenq + 1
       /\ out' # out
             => \/ /\ \E x \in Ctx : pc[x] = "bcast" /\ pc'[x] # "bcast"
                   /\ Len(out') = Len(out) + 1
                \/ /\ wpc = "recv" /\ wpc' = "snap"
                   /\ out # <<>>
                   /\ out' = Tail(out)
                   /\ wmsg' = Head(out)
                   /\ wmsg'.n = nenq - Len(out) + 1
                   /\ nenq' = nenq
       /\ (wmsg' # wmsg /\ wmsg' # NoMsg) => (wpc = "recv" /\ wmsg' = Head(out))]_vars

\* C12 witness: the channel is full, a Broadcast call is blocked on it and the
\* dispatcher is still busy with the message before.
C12_Witness ==
    /\ Len(out) = OutCap
    /\ wpc = "sched"
    /\ wmsg.n = out[1].n - 1
    /\ \E x \in Ctx : pc[x] = "bcast" /\ bmsg[x] # NoMsg

\* C13: registry consistency. Whenever nobody holds the registry lock for
\* writing, every participant in the membership list has the name-map entry
\* of its stored name, pointing at it, and every name-map entry points at a
\* participant in the list whose stored name is the entry's key.
C13_RegistryConsistent ==
    mu = None
        => /\ \A i \in 1..Len(us) :
                 NsHas(ns, uname[us[i]]) /\ NsGet(ns, uname[us[i]]) = us[i]
           /\ \A e \in ns : InList(us, e[2]) /\ uname[e[2]] = e[1]

\* Register has given c its id
HasId(p, c) == p[H(c)] \notin {"new", "reg_insert"}

\* C14: ids are strictly increasing and never reused. The step of Register
\* that assigns an id gives one greater than every id assigned before, also
\* those of participants since removed; an id once assigned never changes, so
\* no two participants ever registered share an id.
C14_IdsIncrease ==
    [][/\ \A c \in Conns :
             /\ HasId(pc, c) => (HasId(pc', c) /\ uid'[c] = uid[c])
             /\ (~HasId(pc, c) /\ HasId(pc', c))
                   => /\ uid'[c] = seq
                      /\ seq' = seq + 1
                      /\ \A d \in Conns : HasId(pc, d) => uid'[c] > uid[d]
       /\ seq' >= seq
       /\ \A c, d \in Conns :
             (c # d /\ HasId(pc', c) /\ HasId(pc', d)) => uid'[c] # uid'[d]]_vars

\* C14 witness: a participant was removed and a participant registered after
\* that (it bears the freed name) has a greater id.
C14_Witness ==
    \E c, d \in Conns :
        /\ rmTrue[c] >= 1
        /\ ~InList(us, c)
        /\ InList(us, d)
        /\ pc[H(d)] = "open"
        /\ req[d] = NoReq
        /\ uname[d] = uname[c]
        /\ uid[d] > uid[c]

\* C15: lock discipline. No context holds the registry lock and a
\* participant's io lock at once, and a context that is about to write to a
\* connection, is writing to it, is reading from it or is about to put a
\* message in the channel does not hold the registry lock. (The dispatcher
\* holds the read lock only within its snapshot step, pool tasks never take
\* the registry lock.)
C15_LockDiscipline ==
    /\ \A x \in Ctx : \A c \in Conns : ~(mu = x /\ io[c] = x)
    /\ \A t \in pool : mu # TaskId(t)
    /\ \A x \in Ctx :
          pc[x] \in {"w_lock", "w_flush", "reading", "bcast", "open", "fatal"} => mu # x

\* C15 witness: one context is inside a critical section of the registry lock
\* while another holds a connection's io lock.
C15_Witness ==
    \E x \in Ctx : \E c \in Conns :
        /\ mu = x
        /\ io[c] # None
        /\ io[c] # x
        /\ pc[x] \in {"reg_insert", "ren_body", "rm_body"}

\* the list without c, the order of the rest kept
Except(l, c) == SelectSeq(l, LAMBDA e : e # c)

\* C16: Remove removes exactly its argument. When the Remove of a participant
\* that is in the membership list runs its critical section, the name-map
\* entry it deletes is that participant's own, the list loses that participant
\* and nothing else and keeps its order, and no name changes.
C16_RemoveExact ==
    [][\A x \in Ctx :
          LET c == ConnOf(x) IN
          (pc[x] = "rm_body" /\ InList(us, c) /\ pc'[x] # "rm_body")
             => /\ <<uname[c], c>> \in ns
                /\ ns' = ns \ {<<uname[c], c>>}
                /\ us' = Except(us, c)
                /\ uname' = uname
                /\ pc'[x] = "bcast"]_vars

\* C17: removing a non-member is never a structural failure. No sequence of
\* Register, Rename and Remove calls, repeated Remove calls included, ends in
\* remove's panic 'chat: inconsistent state'.
C17_NoInconsistentStatePanic == panicked # "chat: inconsistent state"

\* C18: dispatcher fan-out. The dispatcher takes the head of the channel,
\* then copies the membership list as it is at that moment, then submits the
\* tasks of that message for the elements of its copy one by one, first to
\* last, each once, and only then takes the next message; no task enters the
\* pool any other way, and no step of another context changes the message or
\* the copy it works on. A participant is in the list at most once.
C18_FanOut ==
    [][/\ (wpc = "recv" /\ wpc' # "recv")
             => /\ out # <<>>
                /\ wmsg' = Head(out)
                /\ out' = Tail(out)
                /\ wpc' = "snap"
       /\ (wpc = "snap" /\ wpc' # "snap")
             => /\ wmsg' \in {wmsg, NoMsg}
                /\ IF us = <<>>
                   THEN wpc' = "recv"
                   ELSE wpc' = "sched" /\ wus' = us /\ wi' = 1 /\ wmsg' = wmsg
       /\ wpc = "sched"
             => \/ /\ pool' = pool \cup {[c |-> wus[wi], m |-> wmsg, st |-> "ready"]}
                   /\ \A t \in pool : ~(t.c = wus[wi] /\ t.m = wmsg)
                   /\ IF wi < Len(wus)
                      THEN wpc' = "sched" /\ wus' = wus /\ wmsg' = wmsg /\ wi' = wi + 1
                      ELSE wpc' = "recv"
                \/ /\ wpc' = wpc /\ wus' = wus /\ wmsg' = wmsg /\ wi' = wi
                   /\ \A t \in pool' : t \in pool \/ \E u \in pool : u.c = t.c /\ u.m = t.m
       /\ wpc # "sched"
             => \A t \in pool' : t \in pool \/ \E u \in pool : u.c = t.c /\ u.m = t.m
       /\ \A i, j \in 1..Len(us') : i # j => us'[i] # us'[j]]_vars

\* C18 witness: the dispatcher is part way through the tasks of a message and
\* the membership list is no longer what it copied.
C18_Witness ==
    /\ wpc = "sched"
    /\ wi > 1
    /\ wus # us
    /\ \E t \in pool : t.m = wmsg /\ t.c = wus[1]

\* C19: publish needs no parameter validation. A receive step that decoded a
\* publish request whose params are a nil mapping goes on without a fatal
\* failure: it hands author and time to Broadcast, that message is enqueued
\* and the step returns with the connection open.
C19_PublishNilParams ==
    [][\A c \in Conns :
          (req[c].method = "publish" /\ req[c].params.nil)
             => /\ panicked' # "assignment to entry in nil map"
                /\ (pc[H(c)] = "pub_stamp" /\ pc'[H(c)] # "pub_stamp")
                      => /\ pc'[H(c)] = "bcast"
                         /\ bmsg'[H(c)].method = "publish"
                         /\ bmsg'[H(c)].params.kv =
                               {<<"author", Str(uname[c])>>, <<"time", timestamp>>}
                /\ (pc[H(c)] = "bcast" /\ pc'[H(c)] # "bcast")
                      => /\ pc'[H(c)] = "open"
                         /\ ~closed'[c]
                         /\ Len(out') = Len(out) + 1]_vars

\* the tasks a step puts in the pool
Submitted == {t \in pool' : \A u \in pool : ~(u.c = t.c /\ u.m = t.m)}

\* C20: no delivery after removal. Once remove has returned true for p, with
\* cut[p] messages enqueued until then, no task that enters the pool writes a
\* later message to p, p's own goodbye included, and p is in no snapshot the
\* dispatcher takes from then on.
C20_NoDeliveryAfterRemoval ==
    [][/\ \A t \in Submitted : rmTrue[t.c] >= 1 => t.m.n <= cut[t.c]
       /\ \A p \in Conns :
             (rmTrue[p] >= 1 /\ wpc = "snap" /\ wpc' = "sched") => ~InList(wus', p)]_vars

\* C20 witness: p was removed, its goodbye was enqueued after that and is being
\* written to a participant that stayed.
C20_Witness ==
    \E p \in Conns : \E t \in pool :
        /\ rmTrue[p] = 1
        /\ bye[p] = 1
        /\ t.m.method = "goodbye"
        /\ t.m.n > cut[p]
        /\ t.c # p
        /\ t.st = "writing"

=============================================================================
